---- MODULE Spec2Model ----
(***************************************************************************)
(* A model of the tokio-service composition algebra: services, middleware, *)
(* WrappedService, the streaming hierarchy with its chain and reduce       *)
(* combinators, the ownership-forwarding impls and the composite factories.*)
(*                                                                         *)
(* The repository holds traits and combinators only; the services,         *)
(* middleware, stream middleware and reducers that implement the traits    *)
(* are the inputs of the model: a small family of each is enumerated below.*)
(* A capability object is a record whose "kind" names its concrete type. A *)
(* call is evaluated in one step and yields the resolved handle, the shared*)
(* state after the call and the log of the calls that reached each layer.  *)
(***************************************************************************)
EXTENDS Integers, Sequences, FiniteSets, TLC

\* ------------------------------------------------------------------ bounds
MaxLayers == 3      \* layers of composition around a base service
MaxCalls == 3       \* calls made on the composite
MaxNew == 3         \* invocations of a factory

\* ------------------------------------------------------------------ values
Reqs == {"x", "y"}
Limits == {1, 2}

\* The resolved single-resolution handle: Response or Error.
Ok(v) == [ok |-> TRUE, val |-> v]
Err(e) == [ok |-> FALSE, err |-> e]

\* AsyncService<T, U>: Ready(handle) or NotReady(request handed back).
Ready(f) == [tag |-> "Ready", fut |-> f]
NotReady(r) == [tag |-> "NotReady", req |-> r]

is_ready(a) == CASE a.tag = "Ready" -> TRUE [] a.tag = "NotReady" -> FALSE
\* is_not_ready that answers as is_ready does.
is_not_ready_Same(a) == is_ready(a)
is_not_ready(a) == ~is_ready(a)

\* The resolved sequence handle: the items produced, then normal completion
\* (err = "") or the error met at position Len(items) + 1.
Seq_(items, e) == [items |-> items, err |-> e]

\* What one call yields: its handle, the shared state after it, the calls logged.
Res(out, st, log) == [out |-> out, st |-> st, log |-> log]
\* A logged call: the layer reached, the request it received, its nesting depth
\* and, for a middleware, the kind of accessor it was handed ("" otherwise).
Ev(who, req, d, via) == [who |-> who, req |-> req, depth |-> d, via |-> via]

\* ------------------------------------------------- implementors (the inputs)
\* Services of the shape of middleware.rs (call returns the handle).
Echo == [kind |-> "echo"]
Fail == [kind |-> "fail"]
\* A service of the shape of lib.rs (call returns AsyncService): echo with a
\* capacity gate.
Gated == [kind |-> "gated"]
\* A service with a state of its own: it answers with the number of calls it
\* has had. The instances of a sharing factory count in one cell.
Tally(shared) == [kind |-> "tally", shared |-> shared]
\* Stream services.
SEcho == [kind |-> "secho"]
Emit(items, e) == [kind |-> "emit", items |-> items, err |-> e]
EmitItems == {<<>>, <<1, 2, 3>>}
EmitErrs == {"", "broken"}

BaseServices ==
    {Echo, Fail, Gated, SEcho} \cup {Emit(i, e) : i \in EmitItems, e \in EmitErrs}

\* Middleware.
Prefix(t) == [kind |-> "prefix", tag |-> t]
Count == [kind |-> "count"]
Reject(n, w) == [kind |-> "reject", limit |-> n, check |-> w]
Short == [kind |-> "short"]
Middlewares ==
    {Prefix("A:"), Count, Short}
        \cup {Reject(n, w) : n \in Limits, w \in {"entry", "exit"}}
OwnedMiddlewares == {Count}
Owners == {"Box", "Rc", "Arc"}
Owned(w, x) == [kind |-> w, inner |-> x]

\* Stream middleware.
SPrefix(t) == [kind |-> "sprefix", tag |-> t]
SInc == [kind |-> "sinc"]
STake == [kind |-> "stake"]
SDeny == [kind |-> "sdeny"]
StreamMiddlewares == {SPrefix("A:"), SPrefix("B:"), SInc, STake, SDeny}

\* Reducers.
Sum == [kind |-> "sum"]
Concat == [kind |-> "concat"]
Reducers == {Sum, Concat}

\* The chains: middleware and reducers made of two.
Chains ==
    {"StreamMiddlewareChain", "StreamReduceMiddlewareChain",
     "StreamMiddlewareReduceChain"}

\* Type alignment, checked at composition time by the associated-type
\* equalities: the item type a capability works on.
StrOnly == {"prefix", "short", "sprefix", "concat"}
IntOnly == {"sinc", "sum"}
RECURSIVE Fits(_, _)
Fits(m, t) ==
    CASE m.kind \in StrOnly -> t = "Str"
      [] m.kind \in IntOnly -> t = "Int"
      [] m.kind \in Owners -> Fits(m.inner, t)
      [] m.kind = "StreamMiddlewareChain" ->
            Fits(m.inner_middleware, t) /\ Fits(m.outer_middleware, t)
      [] m.kind = "StreamReduceMiddlewareChain" ->
            Fits(m.reducer, t) /\ Fits(m.middleware, t)
      [] m.kind = "StreamMiddlewareReduceChain" ->
            Fits(m.middleware, t) /\ Fits(m.reducer, t)
      [] OTHER -> TRUE

\* The name a layer logs itself under.
Name(m) == IF "tag" \in DOMAIN m THEN m.kind \o " " \o m.tag ELSE m.kind

\* ------------------------------------------------------------- the accessor
\* type Accessor: From<S>. The counting middleware shares the service behind an
\* Arc; the others take the service itself. An owned middleware has its inner
\* middleware's accessor.
RECURSIVE Accessor(_)
Accessor(m) ==
    CASE m.kind \in Owners -> Accessor(m.inner)
      [] m.kind = "count" -> "Arc"
      [] OTHER -> "Same"

\* service.into(): From<S> for S is the identity, From<S> for Arc<S> is Arc::new.
Into(service, mode) ==
    IF mode = "Same" THEN service ELSE [kind |-> mode, inner |-> service]

\* ------------------------------------------------------------ construction
\* WrappedService::new
WrappedService_new(service, middleware) ==
    [kind |-> "WrappedService",
     service |-> Into(service, Accessor(middleware)),
     middleware |-> middleware]

\* Middleware::wrap
Middleware_wrap(self, service) == WrappedService_new(service, self)

\* Service::wrap, the helper reduce.rs calls on a reduced service.
Service_wrap(self, middleware) == Middleware_wrap(middleware, self)

\* StreamMiddleware::chain
StreamMiddleware_chain(self, middleware) ==
    [kind |-> "StreamMiddlewareChain",
     inner_middleware |-> self,
     outer_middleware |-> middleware]

\* StreamReduce::chain
StreamReduce_chain(self, middleware) ==
    [kind |-> "StreamReduceMiddlewareChain",
     reducer |-> self,
     middleware |-> middleware]

\* StreamMiddleware::reduce
StreamMiddleware_reduce(self, reducer) ==
    [kind |-> "StreamMiddlewareReduceChain",
     middleware |-> self,
     reducer |-> reducer]

RECURSIVE StreamMiddleware_wrap(_, _), StreamService_wrap(_, _),
          StreamMiddlewareChain_wrap(_, _)

\* StreamMiddlewareChain::wrap with the two middleware swapped.
StreamMiddlewareChain_wrap_Swapped(self, service) ==
    StreamService_wrap(StreamService_wrap(service, self.outer_middleware),
                       self.inner_middleware)

\* StreamMiddlewareChain::wrap that applies only the last middleware of an inner
\* middleware that is itself a chain.
StreamMiddlewareChain_wrap_Flat(self, service) ==
    StreamService_wrap(
        StreamService_wrap(service,
            IF self.inner_middleware.kind = "StreamMiddlewareChain"
            THEN self.inner_middleware.outer_middleware
            ELSE self.inner_middleware),
        self.outer_middleware)

\* StreamMiddlewareChain::wrap
StreamMiddlewareChain_wrap(self, service) ==
    StreamService_wrap(StreamService_wrap(service, self.inner_middleware),
                       self.outer_middleware)

\* StreamMiddleware::wrap: the chain's impl, or an implementor's wrapped service.
StreamMiddleware_wrap(self, service) ==
    IF self.kind = "StreamMiddlewareChain"
    THEN StreamMiddlewareChain_wrap(self, service)
    ELSE [kind |-> "SWrapped", middleware |-> self, service |-> service]

\* StreamService::wrap
StreamService_wrap(self, middleware) == StreamMiddleware_wrap(middleware, self)

RECURSIVE StreamReduce_reduce(_, _), StreamService_reduce(_, _),
          StreamReduceMiddlewareChain_reduce(_, _),
          StreamMiddlewareReduceChain_reduce(_, _)

\* StreamReduceMiddlewareChain::reduce that wraps the stream service with the
\* middleware's stream counterpart before reducing, so that the middleware
\* works on the elements.
StreamReduceMiddlewareChain_reduce_PerItem(self, service) ==
    StreamService_reduce(
        StreamService_wrap(service,
            IF self.middleware.kind = "prefix"
            THEN [kind |-> "sprefix", tag |-> self.middleware.tag]
            ELSE [kind |-> "stake"]),
        self.reducer)

\* StreamReduceMiddlewareChain::reduce
StreamReduceMiddlewareChain_reduce(self, service) ==
    Service_wrap(StreamService_reduce(service, self.reducer), self.middleware)

\* StreamMiddlewareReduceChain::reduce that leaves the middleware out and
\* reduces the service it was given.
StreamMiddlewareReduceChain_reduce_Unwrapped(self, service) ==
    StreamService_reduce(service, self.reducer)

\* StreamMiddlewareReduceChain::reduce
StreamMiddlewareReduceChain_reduce(self, service) ==
    StreamService_reduce(StreamService_wrap(service, self.middleware),
                         self.reducer)

\* StreamReduce::reduce: the chains' impls, or an implementor's reduced service.
StreamReduce_reduce(self, service) ==
    CASE self.kind = "StreamReduceMiddlewareChain" ->
            StreamReduceMiddlewareChain_reduce(self, service)
      [] self.kind = "StreamMiddlewareReduceChain" ->
            StreamMiddlewareReduceChain_reduce(self, service)
      [] OTHER -> [kind |-> "Reduced", reducer |-> self, service |-> service]

\* StreamService::reduce
StreamService_reduce(self, reducer) == StreamReduce_reduce(reducer, self)

\* ------------------------------------------------------------------- calls
RECURSIVE SumSeq(_)
SumSeq(s) == IF s = <<>> THEN 0 ELSE Head(s) + SumSeq(Tail(s))
RECURSIVE ConcatSeq(_)
ConcatSeq(s) == IF s = <<>> THEN "" ELSE Head(s) \o ConcatSeq(Tail(s))

\* A fold that drops the error and folds the items met before it.
Fold_DropError(reducer, seq) ==
    IF reducer.kind = "sum" THEN Ok(SumSeq(seq.items))
    ELSE Ok(ConcatSeq(seq.items))

\* The folding policy of the two reducers: the first error short-circuits,
\* otherwise the sum (the concatenation) of the items.
Fold(reducer, seq) ==
    IF seq.err # "" THEN Err(seq.err)
    ELSE IF reducer.kind = "sum" THEN Ok(SumSeq(seq.items))
    ELSE Ok(ConcatSeq(seq.items))

MapOk(f, tag) == IF f.ok THEN Ok(tag \o f.val) ELSE f

RECURSIVE Service_call(_, _, _, _), Middleware_call(_, _, _, _, _),
          StreamService_call(_, _, _, _), WrappedService_call(_, _, _, _)

\* A forwarding impl that hands the accessor's inner service to the middleware.
OwnedMiddleware_call_Unwrapped(self, req, service, st, d) ==
    Middleware_call(self.inner, req,
                    IF "inner" \in DOMAIN service THEN service.inner ELSE service,
                    st, d)

\* impl Middleware<S> for Box<M>, Rc<M>, Arc<M>
OwnedMiddleware_call(self, req, service, st, d) ==
    Middleware_call(self.inner, req, service, st, d)

\* A middleware reaching the service through its accessor: &Arc<S> derefs to S.
Accessor_call(acc, req, st, d) ==
    IF acc.kind = "Arc" /\ "inner" \in DOMAIN acc
    THEN Service_call(acc.inner, req, st, d)
    ELSE Service_call(acc, req, st, d)

\* Middleware::call of the implementors.
ImplMiddleware_call(m, req, acc, st, d) ==
    LET e == <<Ev(Name(m), req, d, acc.kind)>> IN
    CASE m.kind = "prefix" ->
            LET r == Accessor_call(acc, req, st, d + 1)
            IN  Res(MapOk(r.out, m.tag), r.st, e \o r.log)
      [] m.kind = "count" ->
            LET r == Accessor_call(acc, req,
                                   [st EXCEPT !.counter = @ + 1], d + 1)
            IN  Res(r.out, r.st, e \o r.log)
      [] m.kind = "reject" /\ m.check = "entry" ->
            IF st.counter > m.limit
            THEN Res(Err("limit exceeded"), st, e)
            ELSE LET r == Accessor_call(acc, req, st, d + 1)
                 IN  Res(r.out, r.st, e \o r.log)
      [] m.kind = "reject" /\ m.check = "exit" ->
            LET r == Accessor_call(acc, req, st, d + 1)
            IN  Res(IF r.st.counter > m.limit
                    THEN Err("limit exceeded") ELSE r.out,
                    r.st, e \o r.log)
      [] m.kind = "short" -> Res(Ok("cached"), st, e)

\* Middleware::call, by the type of the middleware.
Middleware_call(m, req, acc, st, d) ==
    IF m.kind \in Owners
    THEN OwnedMiddleware_call(m, req, acc, st, d)
    ELSE ImplMiddleware_call(m, req, acc, st, d)

\* WrappedService::call that answers a failed handle with an empty success.
WrappedService_call_Swallow(self, req, st, d) ==
    LET r == Middleware_call(self.middleware, req, self.service, st, d)
    IN  Res(IF r.out.ok THEN r.out ELSE Ok(""), r.st, r.log)

\* WrappedService::call calling the stored service itself, past the middleware.
WrappedService_call_Bypass(self, req, st, d) ==
    Accessor_call(self.service, req, st, d)

\* WrappedService::call
WrappedService_call(self, req, st, d) ==
    Middleware_call(self.middleware, req, self.service, st, d)

\* Service::call of the implementors, and of the reduced service of the two
\* reducers: one call of the stream service, folded.
ImplService_call(s, req, st, d) ==
    CASE s.kind = "echo" -> Res(Ok(req), st, <<Ev("echo", req, d, "")>>)
      [] s.kind = "fail" -> Res(Err("down"), st, <<Ev("fail", req, d, "")>>)
      [] s.kind = "tally" ->
            Res(Ok(st.cell[s.cell] + 1), [st EXCEPT !.cell[s.cell] = @ + 1],
                <<Ev("tally", req, d, "")>>)
      [] s.kind = "Reduced" ->
            LET r == StreamService_call(s.service, req, st, d + 1)
            IN  Res(Fold(s.reducer, r.out), r.st,
                    <<Ev(s.reducer.kind, req, d, "")>> \o r.log)

\* Service::call, handle-returning shape, by the type of the service.
Service_call(s, req, st, d) ==
    IF s.kind = "WrappedService"
    THEN WrappedService_call(s, req, st, d)
    ELSE ImplService_call(s, req, st, d)

MapItems(items, tag) == [i \in 1..Len(items) |-> tag \o items[i]]
IncItems(items) == [i \in 1..Len(items) |-> items[i] + 1]

\* A forwarding impl that calls the inner stream service twice.
OwnedStream_call_Twice(self, request, st, d) ==
    LET a == StreamService_call(self.inner, request, st, d)
        b == StreamService_call(self.inner, request, a.st, d)
    IN  Res(b.out, b.st, a.log \o b.log)

\* impl StreamService for Box<S>, Rc<S>, Arc<S>
OwnedStream_call(self, request, st, d) ==
    StreamService_call(self.inner, request, st, d)

\* StreamService::call of the implementors and of the wrapped services of the
\* stream middleware.
ImplStreamService_call(s, req, st, d) ==
    CASE s.kind = "secho" ->
            Res(Seq_(<<req>>, ""), st, <<Ev("secho", req, d, "")>>)
      [] s.kind = "emit" ->
            Res(Seq_(s.items, s.err), st, <<Ev("emit", req, d, "")>>)
      [] s.kind = "SWrapped" ->
            LET m == s.middleware
                e == <<Ev(Name(m), req, d, "")>>
                r == StreamService_call(s.service, req, st, d + 1)
                o == r.out
            IN  IF m.kind = "sdeny" /\ req = "y"
                THEN Res(Seq_(<<>>, ""), st, e)
                ELSE
                Res(CASE m.kind = "sprefix" -> Seq_(MapItems(o.items, m.tag), o.err)
                      [] m.kind = "sinc" -> Seq_(IncItems(o.items), o.err)
                      [] m.kind = "stake" ->
                            IF o.items = <<>> THEN o
                            ELSE Seq_(<<Head(o.items)>>, "")
                      [] m.kind = "sdeny" -> o,
                    r.st, e \o r.log)

\* StreamService::call, by the type of the stream service.
StreamService_call(s, req, st, d) ==
    IF s.kind \in Owners
    THEN OwnedStream_call(s, req, st, d)
    ELSE ImplStreamService_call(s, req, st, d)

\* The gated echo service: at capacity it hands the request back.
Gated_call(s, req, st, d) ==
    Res(IF st.busy THEN NotReady(req) ELSE Ready(Ok(req)),
        st, <<Ev("gated", req, d, "")>>)

RECURSIVE AsyncService_call(_, _, _, _)

\* A Box<S> that answers a request the service hands back by trying once more.
Box_call_Retry(self, request, st, d) ==
    LET a == AsyncService_call(self.inner, request, st, d)
    IN  IF is_ready(a.out) THEN a
        ELSE LET b == AsyncService_call(self.inner, request, a.st, d)
             IN  Res(b.out, b.st, a.log \o b.log)

\* impl Service for Box<S>
Box_call(self, request, st, d) == AsyncService_call(self.inner, request, st, d)

\* Service::call, AsyncService-returning shape: the gated service and Box<S>.
AsyncService_call(s, req, st, d) ==
    IF s.kind = "Box" THEN Box_call(s, req, st, d) ELSE Gated_call(s, req, st, d)

\* The trait a capability object implements.
RECURSIVE Shape(_)
Shape(s) ==
    CASE s.kind \in {"echo", "fail", "tally", "WrappedService", "Reduced"} ->
            "Service"
      [] s.kind = "gated" -> "AsyncService"
      [] s.kind \in {"secho", "emit", "SWrapped"} -> "StreamService"
      [] s.kind \in Owners -> Shape(s.inner)

Call(s, req, st) ==
    CASE Shape(s) = "Service" -> Service_call(s, req, st, 0)
      [] Shape(s) = "AsyncService" -> AsyncService_call(s, req, st, 0)
      [] Shape(s) = "StreamService" -> StreamService_call(s, req, st, 0)

ItemType(s) ==
    IF s.kind \in {"emit", "tally"} THEN "Int" ELSE "Str"

\* --------------------------------------------------------------- factories
\* A factory that is a closure, Fn() -> io::Result<R>: it builds a new value
\* of its product on every invocation, or fails.
Fn(name, product) == [kind |-> "fn", name |-> name, product |-> product]
FnNames == {"svc", "mw", "ssvc", "smw", "smw2", "red"}
Env0 == [n \in FnNames |-> 0]

\* ServiceWrapper::new
ServiceWrapper_new(service_factory, middleware_factory) ==
    [kind |-> "ServiceWrapper",
     service_factory |-> service_factory,
     middleware_factory |-> middleware_factory]

\* NewMiddleware::wrap
NewMiddleware_wrap(self, service_factory) ==
    ServiceWrapper_new(service_factory, self)

\* NewStreamMiddleware::wrap
NewStreamMiddleware_wrap(self, new_service) ==
    [kind |-> "NewStreamServiceWrapper",
     service |-> new_service,
     middleware |-> self]

\* NewStreamService::wrap
NewStreamService_wrap(self, new_middleware) ==
    NewStreamMiddleware_wrap(new_middleware, self)

\* NewStreamMiddleware::chain
NewStreamMiddleware_chain(self, new_middleware) ==
    [kind |-> "NewStreamMiddlewareChain",
     inner_middleware |-> self,
     outer_middleware |-> new_middleware]

\* NewStreamMiddleware::reduce
NewStreamMiddleware_reduce(self, new_reducer) ==
    [kind |-> "NewStreamMiddlewareReduceChain",
     reducer |-> new_reducer,
     middleware |-> self]

\* NewStreamReduce::reduce
NewStreamReduce_reduce(self, new_service) ==
    [kind |-> "NewStreamServiceReducer",
     service |-> new_service,
     reducer |-> self]

\* NewStreamService::reduce
NewStreamService_reduce(self, new_reducer) ==
    NewStreamReduce_reduce(new_reducer, self)

\* NewStreamReduce::chain
NewStreamReduce_chain(self, new_middleware) ==
    [kind |-> "NewStreamReduceMiddlewareChain",
     reducer |-> self,
     middleware |-> new_middleware]

\* What one invocation of a factory yields: the io::Result, the closures'
\* invocation counts after it, the closures invoked in order.
Made(out, env, log) == [out |-> out, env |-> env, log |-> log]

\* The k-th value a closure builds.
Stamp(product, k) ==
    IF product.kind = "tally"
    THEN [kind |-> "tally", id |-> k, cell |-> IF product.shared THEN 0 ELSE k]
    ELSE [id |-> k] @@ product

\* impl NewService (NewMiddleware, NewStreamService) for F: (*self)()
Fn_new(self, env, broken) ==
    LET k == env[self.name] + 1
    IN  Made(IF self.name \in broken
             THEN Err(self.name \o " factory failed")
             ELSE Ok(Stamp(self.product, k)),
             [env EXCEPT ![self.name] = k],
             <<self.name>>)

RECURSIVE New(_, _, _)

\* A forwarding impl that builds a value, drops it and builds another.
OwnedFactory_new_Twice(self, env, broken) ==
    LET a == New(self.inner, env, broken)
        b == New(self.inner, a.env, broken)
    IN  Made(b.out, b.env, a.log \o b.log)

\* impl NewMiddleware<S> for Arc<M>, Rc<M>; impl NewStreamService for Arc<S>,
\* Rc<S>
OwnedFactory_new(self, env, broken) == New(self.inner, env, broken)

\* ServiceWrapper::new_service that answers a failed middleware factory with
\* the bare service in a composite.
ServiceWrapper_new_service_HalfBuilt(self, env, broken) ==
    LET s == New(self.service_factory, env, broken)
        m == New(self.middleware_factory, s.env, broken)
    IN  IF ~s.out.ok THEN s
        ELSE Made(Ok([kind |-> "WrappedService",
                      service |-> s.out.val,
                      middleware |-> IF m.out.ok THEN m.out.val
                                     ELSE [kind |-> "none"]]),
                  m.env, s.log \o m.log)

\* ServiceWrapper::new_service that asks the service factory twice and keeps
\* the second service.
ServiceWrapper_new_service_Twice(self, env, broken) ==
    LET s0 == New(self.service_factory, env, broken)
        s == New(self.service_factory, s0.env, broken)
    IN  IF ~s.out.ok THEN Made(s.out, s.env, s0.log \o s.log)
        ELSE LET m == New(self.middleware_factory, s.env, broken)
             IN  IF ~m.out.ok THEN Made(m.out, m.env, s0.log \o s.log \o m.log)
                 ELSE Made(Ok(WrappedService_new(s.out.val, m.out.val)),
                           m.env, s0.log \o s.log \o m.log)

\* ServiceWrapper::new_service: each ? returns the factory's error at once.
ServiceWrapper_new_service(self, env, broken) ==
    LET s == New(self.service_factory, env, broken)
    IN  IF ~s.out.ok THEN s
        ELSE LET m == New(self.middleware_factory, s.env, broken)
             IN  IF ~m.out.ok THEN Made(m.out, m.env, s.log \o m.log)
                 ELSE Made(Ok(WrappedService_new(s.out.val, m.out.val)),
                           m.env, s.log \o m.log)

\* NewStreamServiceWrapper::new_service that asks the middleware factory
\* first.
NewStreamServiceWrapper_new_service_MiddlewareFirst(self, env, broken) ==
    LET m == New(self.middleware, env, broken)
    IN  IF ~m.out.ok THEN m
        ELSE LET s == New(self.service, m.env, broken)
             IN  IF ~s.out.ok THEN Made(s.out, s.env, m.log \o s.log)
                 ELSE Made(Ok(StreamService_wrap(s.out.val, m.out.val)),
                           s.env, m.log \o s.log)

\* NewStreamServiceWrapper::new_service
NewStreamServiceWrapper_new_service(self, env, broken) ==
    LET s == New(self.service, env, broken)
    IN  IF ~s.out.ok THEN s
        ELSE LET m == New(self.middleware, s.env, broken)
             IN  IF ~m.out.ok THEN Made(m.out, m.env, s.log \o m.log)
                 ELSE Made(Ok(StreamService_wrap(s.out.val, m.out.val)),
                           m.env, s.log \o m.log)

\* NewStreamServiceReducer::new_service
NewStreamServiceReducer_new_service(self, env, broken) ==
    LET s == New(self.service, env, broken)
    IN  IF ~s.out.ok THEN s
        ELSE LET r == New(self.reducer, s.env, broken)
             IN  IF ~r.out.ok THEN Made(r.out, r.env, s.log \o r.log)
                 ELSE Made(Ok(StreamService_reduce(s.out.val, r.out.val)),
                           r.env, s.log \o r.log)

\* NewStreamMiddlewareChain::new_middleware that hands the two instances to
\* chain the other way round.
NewStreamMiddlewareChain_new_middleware_Swapped(self, env, broken) ==
    LET i == New(self.inner_middleware, env, broken)
    IN  IF ~i.out.ok THEN i
        ELSE LET o == New(self.outer_middleware, i.env, broken)
             IN  IF ~o.out.ok THEN Made(o.out, o.env, i.log \o o.log)
                 ELSE Made(Ok(StreamMiddleware_chain(o.out.val, i.out.val)),
                           o.env, i.log \o o.log)

\* NewStreamMiddlewareChain::new_middleware
NewStreamMiddlewareChain_new_middleware(self, env, broken) ==
    LET i == New(self.inner_middleware, env, broken)
    IN  IF ~i.out.ok THEN i
        ELSE LET o == New(self.outer_middleware, i.env, broken)
             IN  IF ~o.out.ok THEN Made(o.out, o.env, i.log \o o.log)
                 ELSE Made(Ok(StreamMiddleware_chain(i.out.val, o.out.val)),
                           o.env, i.log \o o.log)

\* NewStreamMiddlewareReduceChain::new_reducer
NewStreamMiddlewareReduceChain_new_reducer(self, env, broken) ==
    LET m == New(self.middleware, env, broken)
    IN  IF ~m.out.ok THEN m
        ELSE LET r == New(self.reducer, m.env, broken)
             IN  IF ~r.out.ok THEN Made(r.out, r.env, m.log \o r.log)
                 ELSE Made(Ok(StreamMiddleware_reduce(m.out.val, r.out.val)),
                           r.env, m.log \o r.log)

\* NewStreamReduceMiddlewareChain::new_reducer
NewStreamReduceMiddlewareChain_new_reducer(self, env, broken) ==
    LET r == New(self.reducer, env, broken)
    IN  IF ~r.out.ok THEN r
        ELSE LET m == New(self.middleware, r.env, broken)
             IN  IF ~m.out.ok THEN Made(m.out, m.env, r.log \o m.log)
                 ELSE Made(Ok(StreamReduce_chain(r.out.val, m.out.val)),
                           m.env, r.log \o m.log)

\* new_service, new_middleware, new_reducer: the leaf factories, the composite
\* factories and the forwarding impls.
New(f, env, broken) ==
    CASE f.kind = "fn" -> Fn_new(f, env, broken)
      [] f.kind = "ServiceWrapper" -> ServiceWrapper_new_service(f, env, broken)
      [] f.kind = "NewStreamServiceWrapper" ->
            NewStreamServiceWrapper_new_service(f, env, broken)
      [] f.kind = "NewStreamServiceReducer" ->
            NewStreamServiceReducer_new_service(f, env, broken)
      [] f.kind = "NewStreamMiddlewareChain" ->
            NewStreamMiddlewareChain_new_middleware(f, env, broken)
      [] f.kind = "NewStreamMiddlewareReduceChain" ->
            NewStreamMiddlewareReduceChain_new_reducer(f, env, broken)
      [] f.kind = "NewStreamReduceMiddlewareChain" ->
            NewStreamReduceMiddlewareChain_new_reducer(f, env, broken)
      [] f.kind \in {"Rc", "Arc"} -> OwnedFactory_new(f, env, broken)

\* The two factories a composite factory holds, in the order it asks them.
Subs(f) ==
    CASE f.kind = "ServiceWrapper" ->
            <<f.service_factory, f.middleware_factory>>
      [] f.kind = "NewStreamServiceWrapper" -> <<f.service, f.middleware>>
      [] f.kind = "NewStreamServiceReducer" -> <<f.service, f.reducer>>
      [] f.kind = "NewStreamMiddlewareChain" ->
            <<f.inner_middleware, f.outer_middleware>>
      [] f.kind = "NewStreamMiddlewareReduceChain" ->
            <<f.middleware, f.reducer>>
      [] f.kind = "NewStreamReduceMiddlewareChain" ->
            <<f.reducer, f.middleware>>

\* The same factory with no owning wrapper in it.
RECURSIVE Plain(_)
Plain(f) ==
    CASE f.kind \in Owners -> Plain(f.inner)
      [] f.kind = "ServiceWrapper" ->
            ServiceWrapper_new(Plain(f.service_factory),
                               Plain(f.middleware_factory))
      [] f.kind \in {"NewStreamServiceWrapper", "NewStreamMiddlewareReduceChain",
                     "NewStreamReduceMiddlewareChain"} ->
            [f EXCEPT !.middleware = Plain(@)]
      [] OTHER -> f

\* The closures of a factory.
RECURSIVE Fns(_)
Fns(f) ==
    CASE f.kind \in Owners -> Fns(f.inner)
      [] f.kind = "fn" -> {f.name}
      [] OTHER -> Fns(Subs(f)[1]) \cup Fns(Subs(f)[2])

ServiceFns == {Fn("svc", Echo), Fn("svc", Tally(TRUE)), Fn("svc", Tally(FALSE))}
MiddlewareFns == {Fn("mw", Prefix("A:")), Fn("mw", Count)}
StreamServiceFns == {Fn("ssvc", SEcho)}
\* Leaf factories of stream middleware and of reducers.
InnerFn == Fn("smw", SPrefix("A:"))
OuterFn == Fn("smw2", SPrefix("B:"))
ReducerFn == Fn("red", Concat)
\* The factory-level chains.
ChainFactories ==
    {NewStreamMiddleware_chain(InnerFn, OuterFn),
     NewStreamMiddleware_reduce(InnerFn, ReducerFn),
     NewStreamReduce_chain(ReducerFn, Fn("mw", Prefix("A:")))}
\* The composite factories of stream services.
StreamFactories ==
    {NewStreamService_wrap(sf, InnerFn) : sf \in StreamServiceFns}
        \cup {NewStreamService_reduce(sf, ReducerFn) : sf \in StreamServiceFns}
SharingOwners == {"Rc", "Arc"}

Factories ==
    LET pairs == {<<sf, mf>> \in ServiceFns \X MiddlewareFns :
                    Fits(mf.product, ItemType(sf.product))}
    IN  {NewMiddleware_wrap(p[2], p[1]) : p \in pairs}
        \cup {NewMiddleware_wrap(Owned(w, p[2]), p[1]) :
                    w \in SharingOwners, p \in {q \in pairs : q[1].product = Echo}}
        \cup {Owned(w, sf) : w \in SharingOwners, sf \in StreamServiceFns}
        \cup ChainFactories
        \cup StreamFactories

\* ---------------------------------------------------------------- the state
VARIABLES
    svc,        \* the composite under construction and use
    twin,       \* the same pipeline built the plain way: one wrap or reduce per
                \* layer, no chain combinator, no owning wrapper
    st,         \* the state shared by the layers of svc: counter, capacity
    twinSt,     \* the same for twin
    step,       \* how svc's outermost layer was added
    parts,      \* what the last construction step was handed: the service, the
                \* (outer) middleware, the inner middleware or the reducer
    layers,     \* layers added so far
    ncalls,     \* calls made so far
    last,       \* the last call on svc: request, handle, log
    twinLast,   \* the same call on twin
    direct,     \* the same call made one level down
    fac,        \* the factory in use
    broken,     \* the closures that fail when invoked now
    env,        \* how many values each closure has built
    made,       \* the instances the factory has handed out
    lastNew,    \* the last invocation of the factory
    twinNew,    \* the same invocation with no owning wrapper in the factory
    per,        \* per instance handed out: the calls made on it
    parked      \* the calling task was handed its request back and waits to be
                \* notified

pipeline == <<svc, twin, twinSt, step, parts, layers, twinLast, direct>>
factory == <<fac, broken, env, made, lastNew, twinNew, per>>
vars == <<pipeline, factory, st, ncalls, last, parked>>

State0 == [counter |-> 0, busy |-> FALSE, cell |-> [i \in 0..MaxNew |-> 0]]
NoObs == [req |-> "", out |-> Err("no call"), log |-> <<>>, st |-> State0]
Obs(req, r) == [req |-> req, out |-> r.out, log |-> r.log, st |-> r.st]
None == [kind |-> "none"]
NoParts == [service |-> None, middleware |-> None, inner |-> None]
Parts(s, m, i) == [service |-> s, middleware |-> m, inner |-> i]

NoNew == [out |-> Err("no invocation"), log |-> <<>>, broken |-> {}, env |-> Env0]
Invoked(r, b) == [out |-> r.out, log |-> r.log, broken |-> b, env |-> r.env]

\* Either a service to build a pipeline around, or a factory to invoke.
Init ==
    /\ \/ svc \in BaseServices /\ fac = None
       \/ svc = None /\ fac \in Factories
    /\ broken = {}
    /\ env = Env0
    /\ made = <<>>
    /\ lastNew = NoNew
    /\ twinNew = NoNew
    /\ per = [i \in {} |-> 0]
    /\ twin = svc
    /\ st = State0
    /\ twinSt = State0
    /\ step = "base"
    /\ parts = NoParts
    /\ layers = 0
    /\ ncalls = 0
    /\ last = NoObs
    /\ twinLast = NoObs
    /\ direct = NoObs
    /\ parked = FALSE

\* The item type is fixed by the base service: no layer of the model changes it.
RECURSIVE Base(_)
Base(s) ==
    CASE s.kind = "WrappedService" -> Base(s.service)
      [] s.kind \in {"SWrapped", "Reduced"} -> Base(s.service)
      [] s.kind \in Owners -> Base(s.inner)
      [] OTHER -> s
Type(s) == ItemType(Base(s))

\* A pipeline is built, then used.
Building(n) == svc # None /\ ncalls = 0 /\ layers + n <= MaxLayers

Built(s, t, how, n) ==
    /\ svc' = s
    /\ twin' = t
    /\ step' = how
    /\ layers' = layers + n
    /\ UNCHANGED <<st, twinSt, ncalls, last, twinLast, direct, factory, parked>>

\* service wrapped with a middleware
Wrap(m) ==
    /\ Building(1)
    /\ Shape(svc) = "Service"
    /\ Fits(m, Type(svc))
    /\ parts' = Parts(svc, m, None)
    /\ Built(Middleware_wrap(m, svc), Middleware_wrap(m, twin), "wrap", 1)

\* service wrapped with a middleware held in a Box, Rc or Arc (around a
\* service of at most one layer)
WrapOwned(w, m) ==
    /\ Building(1)
    /\ layers <= 1
    /\ Shape(svc) = "Service"
    /\ Fits(m, Type(svc))
    /\ parts' = Parts(svc, Owned(w, m), None)
    /\ Built(Middleware_wrap(Owned(w, m), svc), Middleware_wrap(m, twin),
             "own", 1)

\* a service put in a Box; a stream service (of at most one layer) put in a
\* Box, Rc or Arc
Own(w) ==
    /\ Building(1)
    /\ \/ Shape(svc) = "AsyncService" /\ w = "Box"
       \/ Shape(svc) = "StreamService" /\ layers <= 1
    /\ parts' = NoParts
    /\ Built(Owned(w, svc), twin, "own", 1)

\* stream service wrapped with a stream middleware
SWrap(m) ==
    /\ Building(1)
    /\ Shape(svc) = "StreamService"
    /\ Fits(m, Type(svc))
    /\ parts' = NoParts
    /\ Built(StreamService_wrap(svc, m), StreamService_wrap(twin, m), "swrap", 1)

\* stream service wrapped with inner.chain(outer)
WrapChain(inner, outer) ==
    /\ Building(2)
    /\ Shape(svc) = "StreamService"
    /\ Fits(inner, Type(svc)) /\ Fits(outer, Type(svc))
    /\ parts' = Parts(svc, outer, inner)
    /\ Built(StreamService_wrap(svc, StreamMiddleware_chain(inner, outer)),
             StreamService_wrap(StreamService_wrap(twin, inner), outer),
             "chain", 2)

\* stream service wrapped with m1.chain(m2.chain(m3)); the twin with
\* m1.chain(m2).chain(m3)
WrapChain3(m1, m2, m3) ==
    /\ Building(3)
    /\ Shape(svc) = "StreamService"
    /\ Fits(m1, Type(svc)) /\ Fits(m2, Type(svc)) /\ Fits(m3, Type(svc))
    /\ parts' = Parts(svc, m3, m1)
    /\ Built(StreamService_wrap(svc,
                StreamMiddleware_chain(m1, StreamMiddleware_chain(m2, m3))),
             StreamService_wrap(twin,
                StreamMiddleware_chain(StreamMiddleware_chain(m1, m2), m3)),
             "assoc", 3)

\* stream service reduced to a service
Reduce(r) ==
    /\ Building(1)
    /\ Shape(svc) = "StreamService"
    /\ Fits(r, Type(svc))
    /\ parts' = Parts(svc, None, r)
    /\ Built(StreamService_reduce(svc, r), StreamService_reduce(twin, r),
             "reduce", 1)

\* stream service reduced with reducer.chain(middleware)
ReduceChain(r, m) ==
    /\ Building(2)
    /\ Shape(svc) = "StreamService"
    /\ Fits(r, Type(svc)) /\ Fits(m, Type(svc))
    /\ parts' = Parts(svc, m, r)
    /\ Built(StreamService_reduce(svc, StreamReduce_chain(r, m)),
             Service_wrap(StreamService_reduce(twin, r), m),
             "reducechain", 2)

\* stream service reduced with middleware.reduce(reducer)
WrapReduce(m, r) ==
    /\ Building(2)
    /\ Shape(svc) = "StreamService"
    /\ Fits(m, Type(svc)) /\ Fits(r, Type(svc))
    /\ parts' = Parts(svc, m, r)
    /\ Built(StreamService_reduce(svc, StreamMiddleware_reduce(m, r)),
             StreamService_reduce(StreamService_wrap(twin, m), r),
             "wrapreduce", 2)

\* The same call made one level down: on the middleware itself, with the
\* accessor to the service that was wrapped; on the stream service that was
\* reduced, or on that stream service wrapped with the chain's middleware.
Direct(req) ==
    CASE step = "wrap" ->
            Obs(req, Middleware_call(parts.middleware, req,
                        Into(parts.service, Accessor(parts.middleware)), st, 0))
      [] step \in {"reduce", "reducechain"} ->
            Obs(req, StreamService_call(parts.service, req, st, 0))
      [] step = "wrapreduce" ->
            Obs(req, StreamService_call(
                        StreamService_wrap(parts.service, parts.middleware),
                        req, st, 0))
      [] OTHER -> NoObs

\* one call on the composite
DoCall(req) ==
    /\ svc # None
    /\ ncalls < MaxCalls
    /\ ~parked
    /\ LET r == Call(svc, req, st)
           t == Call(twin, req, twinSt)
       IN  /\ last' = Obs(req, r)
           /\ st' = r.st
           /\ twinLast' = Obs(req, t)
           /\ twinSt' = t.st
           /\ parked' = (Shape(svc) = "AsyncService" /\ is_not_ready(r.out))
    /\ direct' = Direct(req)
    /\ ncalls' = ncalls + 1
    /\ UNCHANGED <<svc, twin, step, parts, layers, factory>>

\* the gated service reaches or leaves capacity
SetBusy(b) ==
    /\ svc # None
    /\ Shape(svc) = "AsyncService"
    /\ st.busy # b
    /\ st' = [st EXCEPT !.busy = b]
    /\ twinSt' = [twinSt EXCEPT !.busy = b]
    /\ UNCHANGED <<svc, twin, step, parts, layers, ncalls, last, twinLast,
                   direct, factory, parked>>

\* the service has capacity again and notifies the task it turned away
Notify ==
    /\ parked
    /\ ~st.busy
    /\ parked' = FALSE
    /\ UNCHANGED <<pipeline, factory, st, ncalls, last>>

\* one invocation of the factory
NewService ==
    /\ fac # None
    /\ Len(made) < MaxNew
    /\ \A n \in FnNames : env[n] < MaxNew
    /\ LET r == New(fac, env, broken)
       IN  /\ lastNew' = Invoked(r, broken)
           /\ env' = r.env
           /\ made' = IF r.out.ok THEN Append(made, r.out.val) ELSE made
           /\ per' = IF r.out.ok THEN Append(per, 0) ELSE per
    /\ twinNew' = Invoked(New(Plain(fac), env, broken), broken)
    /\ UNCHANGED <<fac, broken, pipeline, st, ncalls, last, parked>>

\* a closure starts or stops failing
SetBroken(n) ==
    /\ fac # None
    /\ n \in Fns(fac)
    /\ broken' = IF n \in broken THEN broken \ {n} ELSE broken \cup {n}
    /\ UNCHANGED <<fac, env, made, lastNew, twinNew, per, pipeline, st, ncalls,
                   last, parked>>

\* one call on an instance the factory handed out
CallMade(i, req) ==
    /\ i \in 1..Len(made)
    /\ made[i].kind \notin Chains
    /\ ncalls < MaxCalls
    /\ LET r == Call(made[i], req, st)
       IN  /\ last' = [inst |-> i] @@ Obs(req, r)
           /\ st' = r.st
    /\ per' = [per EXCEPT ![i] = @ + 1]
    /\ ncalls' = ncalls + 1
    /\ UNCHANGED <<fac, broken, env, made, lastNew, twinNew, pipeline, parked>>

Next ==
    \/ \E m \in Middlewares : Wrap(m)
    \/ \E w \in Owners, m \in OwnedMiddlewares : WrapOwned(w, m)
    \/ \E w \in Owners : Own(w)
    \/ \E m \in StreamMiddlewares : SWrap(m)
    \/ \E i, o \in StreamMiddlewares : WrapChain(i, o)
    \/ \E m1, m2, m3 \in StreamMiddlewares : WrapChain3(m1, m2, m3)
    \/ \E r \in Reducers : Reduce(r)
    \/ \E r \in Reducers, m \in Middlewares : ReduceChain(r, m)
    \/ \E m \in StreamMiddlewares, r \in Reducers : WrapReduce(m, r)
    \/ \E req \in Reqs : DoCall(req)
    \/ \E b \in BOOLEAN : SetBusy(b)
    \/ Notify
    \/ NewService
    \/ \E n \in FnNames : SetBroken(n)
    \/ \E i \in 1..MaxNew, req \in Reqs : CallMade(i, req)

Spec == Init /\ [][Next]_vars

\* The service of lib.rs alone, with the notification it promises: once the
\* notification can be given, it is not put off for ever.
InitGated == Init /\ svc = Gated
NextGated ==
    \/ \E w \in Owners : Own(w)
    \/ \E req \in Reqs : DoCall(req)
    \/ \E b \in BOOLEAN : SetBusy(b)
    \/ Notify
SpecGated == InitGated /\ [][NextGated]_vars /\ WF_vars(Notify)

\* ------------------------------------------------------------------ claims
Called == ncalls > 0
IsTop(e) == e.depth = 0
TopCalls(log) == Len(SelectSeq(log, IsTop))
Nested(log, from, d) == \A i \in from..Len(log) : log[i].depth >= d

\* C1: calling the WrappedService built from S and M is the call
\* M.call(r, accessor to S): one call to the middleware, with the same request
\* and the stored accessor, its handle returned unchanged, and S reached only
\* from inside the middleware.
WrappedCallIsMiddlewareCall ==
    (step = "wrap" /\ Called) =>
        /\ last = direct
        /\ TopCalls(last.log) = 1
        /\ last.log[1] =
              Ev(Name(parts.middleware), last.req, 0,
                 Into(parts.service, Accessor(parts.middleware)).kind)
        /\ Nested(last.log, 2, 1)

WrappedCallWitness ==
    /\ step = "wrap" /\ Called
    /\ parts.middleware = Count
    /\ parts.service = Middleware_wrap(Prefix("A:"), Echo)
    /\ last.out = Ok("A:y")

\* C2: wrapping with inner.chain(outer) gives a service that behaves, call
\* after call, as the service wrapped with inner and then with outer.
ChainIsSequentialWrap ==
    (step = "chain" /\ Called) => last = twinLast

ChainWitness ==
    /\ step = "chain" /\ ncalls >= 2
    /\ parts = Parts(SEcho, STake, SPrefix("A:"))
    /\ last.out = Seq_(<<"A:y">>, "")

\* C3: m1.chain(m2.chain(m3)) and m1.chain(m2).chain(m3) wrap a service into
\* services with the same responses, errors and calls reaching each layer, in
\* the same order.
ChainAssociative ==
    (step = "assoc" /\ Called) => last = twinLast

ChainAssociativeWitness ==
    /\ step = "assoc" /\ ncalls >= 2
    /\ Type(svc) = "Str"
    /\ last.out = Seq_(<<"B:A:B:x">>, "")
    /\ Len(last.log) = 4

\* C4: a call on a service wrapped with inner.chain(outer) enters the outer
\* middleware first, the inner one only below it, the service only below the
\* inner one; the echo service with A inner and B outer answers "x" with
\* "B:A:x".
OnionOrder ==
    (step = "chain" /\ Called) =>
        /\ last.log[1] = Ev(Name(parts.middleware), last.req, 0, "")
        /\ Nested(last.log, 2, 1)
        /\ Len(last.log) >= 2 =>
              /\ last.log[2] = Ev(Name(parts.inner), last.req, 1, "")
              /\ Nested(last.log, 3, 2)
        /\ ( /\ parts.service = SEcho
             /\ parts.inner = SPrefix("A:")
             /\ parts.middleware = SPrefix("B:")
             /\ last.req = "x" ) => last.out = Seq_(<<"B:A:x">>, "")

OnionWitness ==
    /\ step = "chain" /\ Called
    /\ parts = Parts(SEcho, SPrefix("B:"), SPrefix("A:"))
    /\ last.req = "x"
    /\ Len(last.log) = 3

\* A call the outer middleware answers itself reaches neither the inner
\* middleware nor the service.
OnionShortWitness ==
    /\ step = "chain" /\ Called
    /\ parts.middleware = SDeny
    /\ Len(last.log) = 1

\* C8 as stated: echo wrapped with the counting and then the rejecting
\* middleware, N = 2: calls 1 and 2 resolve to the request, call 3 to
\* Error("limit exceeded").
Scenario(n, w) == Middleware_wrap(Reject(n, w), Middleware_wrap(Count, Echo))

FirstRejectedCall(n, w) == IF w = "entry" THEN n + 2 ELSE n + 1

FoldCorrect ==
    (step = "reduce" /\ Called) =>
        /\ direct.out.err # "" => last.out = Err(direct.out.err)
        /\ (direct.out.err = "" /\ parts.inner = Sum) =>
              last.out = Ok(SumSeq(direct.out.items))
        /\ (direct.out.err = "" /\ parts.inner = Concat) =>
              last.out = Ok(ConcatSeq(direct.out.items))
        /\ (parts.service = Emit(<<1, 2, 3>>, "") /\ parts.inner = Sum) =>
              last.out = Ok(6)
        /\ last.log = <<Ev(Name(parts.inner), last.req, 0, "")>> \o
                       [i \in 1..Len(direct.log) |->
                            [direct.log[i] EXCEPT !.depth = @ + 1]]

FoldWitness ==
    /\ step = "reduce" /\ ncalls >= 2
    /\ parts.service = Emit(<<1, 2, 3>>, "")
    /\ parts.inner = Sum
    /\ last.out = Ok(6)

FoldErrorWitness ==
    /\ step = "reduce" /\ Called
    /\ parts.service.kind = "SWrapped"
    /\ last.out = Err("broken")

\* C10: reducing with reducer.chain(middleware) gives the service obtained by
\* reducing with the reducer and wrapping the result with the middleware: the
\* middleware is called once per call, above the reducer.
ReduceThenWrap ==
    (step = "reducechain" /\ Called) =>
        /\ last = twinLast
        /\ TopCalls(last.log) = 1
        /\ last.log[1].who = Name(parts.middleware)
        /\ Len(last.log) >= 2 =>
              /\ last.log[2] = Ev(Name(parts.inner), last.log[2].req, 1, "")
              /\ Nested(last.log, 3, 2)

ReduceThenWrapWitness ==
    /\ step = "reducechain" /\ Called
    /\ parts.service = Emit(<<1, 2, 3>>, "")
    /\ parts.middleware.kind = "reject"
    /\ last.out = Ok(6)

ReduceThenWrapPrefixWitness ==
    /\ step = "reducechain" /\ Called
    /\ parts.service = StreamService_wrap(SEcho, SPrefix("B:"))
    /\ parts.middleware = Prefix("A:")
    /\ last.out = Ok("A:B:x")

\* C5: ServiceWrapper::new_service hands out a WrappedService only when both
\* factories succeeded; when one fails it returns that factory's error and no
\* composite.
Wrapper == fac # None /\ fac.kind = "ServiceWrapper"
Invoked1 == lastNew # NoNew

NewServiceAtomic ==
    (Wrapper /\ Invoked1) =>
        /\ "svc" \in lastNew.broken =>
              lastNew.out = Err("svc factory failed")
        /\ ("svc" \notin lastNew.broken /\ "mw" \in lastNew.broken) =>
              lastNew.out = Err("mw factory failed")
        /\ lastNew.out.ok <=> lastNew.broken = {}
        /\ lastNew.out.ok =>
              /\ lastNew.out.val.kind = "WrappedService"
              /\ Base(lastNew.out.val).kind \in {"echo", "tally"}
              /\ lastNew.out.val.middleware.kind \in {"prefix", "count"}
        /\ ~lastNew.out.ok => DOMAIN lastNew.out = {"ok", "err"}

NewServiceFailsWitness ==
    /\ Wrapper /\ Invoked1
    /\ lastNew.broken = {"mw"}
    /\ lastNew.out = Err("mw factory failed")
    /\ lastNew.log = <<"svc", "mw">>
    /\ Len(made) = 1

\* C6: every successful ServiceWrapper::new_service asks each factory once and
\* hands out a new WrappedService of the service and the middleware just
\* built; calls on one instance change the results of another only through
\* state the service factory shares.
NewServiceIndependent ==
    Wrapper =>
        /\ (Invoked1 /\ lastNew.out.ok) =>
              /\ lastNew.log = <<"svc", "mw">>
              /\ Base(lastNew.out.val).id = lastNew.env["svc"]
              /\ lastNew.out.val.middleware.id = lastNew.env["mw"]
              /\ made[Len(made)] = lastNew.out.val
        /\ \A i, j \in 1..Len(made) :
              i # j =>
                  /\ made[i] # made[j]
                  /\ Base(made[i]).id # Base(made[j]).id
                  /\ made[i].middleware.id # made[j].middleware.id
        /\ (Called /\ Base(made[last.inst]).kind = "tally") =>
              last.out = Ok(IF fac.service_factory.product.shared
                            THEN ncalls ELSE per[last.inst])
        /\ (Called /\ Base(made[last.inst]).kind = "echo") =>
              last.out = Ok(IF made[last.inst].middleware.kind = "prefix"
                            THEN "A:" \o last.req ELSE last.req)

IndependentWitness ==
    /\ Wrapper /\ Called
    /\ fac.service_factory.product.kind = "tally"
    /\ ~fac.service_factory.product.shared
    /\ per = <<2, 1>>
    /\ last.inst = 2
    /\ last.out = Ok(1)

SharedWitness ==
    /\ Wrapper /\ Called
    /\ fac.service_factory.product.kind = "tally"
    /\ fac.service_factory.product.shared
    /\ per = <<2, 1>>
    /\ last.inst = 2
    /\ last.out = Ok(3)

\* C7: an operation on a Box, Rc or Arc is one call of the same operation on
\* what it holds, with the arguments unchanged and the result returned
\* unchanged: Box<S> for Service; Box, Rc, Arc for StreamService and
\* Middleware; Rc, Arc for NewMiddleware and NewStreamService.
OwnershipForwarding ==
    /\ (step = "own" /\ Called) => last = twinLast
    /\ (fac # None /\ Invoked1) => lastNew = twinNew

BoxNotReadyWitness ==
    /\ step = "own" /\ Called
    /\ svc = Owned("Box", Gated)
    /\ last.out = NotReady("y")

OwnedStreamWitness ==
    /\ step = "own" /\ Called
    /\ svc = Owned("Rc", Owned("Arc", SEcho))
    /\ last.out = Seq_(<<"x">>, "")

OwnedMiddlewareWitness ==
    /\ step = "own" /\ Called
    /\ parts = Parts(Middleware_wrap(Count, Echo), Owned("Arc", Count), None)
    /\ last.out = Ok("x")
    /\ last.st.counter = 2

OwnedFactoryWitness ==
    /\ Wrapper /\ Invoked1
    /\ fac.middleware_factory.kind = "Rc"
    /\ lastNew.out.ok
    /\ Len(made) = 2

\* C11: reducing with middleware.reduce(reducer) gives the service obtained by
\* wrapping the stream service with the middleware and reducing the result: the
\* reducer folds the stream of the wrapped stream service, which is called once
\* per call, below the reducer.
Deeper(log) == [i \in 1..Len(log) |-> [log[i] EXCEPT !.depth = @ + 1]]
WrapThenReduce ==
    (step = "wrapreduce" /\ Called) =>
        /\ last = twinLast
        /\ last.out = Fold(parts.inner, direct.out)
        /\ last.log = <<Ev(parts.inner.kind, last.req, 0, "")>>
                        \o Deeper(direct.log)
        /\ last.st = direct.st

WrapThenReduceWitness ==
    /\ step = "wrapreduce" /\ Called
    /\ parts.service = Emit(<<1, 2, 3>>, "")
    /\ parts.middleware = SInc
    /\ parts.inner = Sum
    /\ last.out = Ok(9)

WrapThenReduceTakeWitness ==
    /\ step = "wrapreduce" /\ Called
    /\ parts.service = Emit(<<1, 2, 3>>, "broken")
    /\ parts.middleware = STake
    /\ last.out = Ok(1)

\* C12: Service::call never fails synchronously: whatever the service and the
\* request, what call returns is a result handle (for Service of lib.rs, the
\* Ready variant holding one), never a rejection in place of a handle.
IsHandle(o) ==
    \/ "ok" \in DOMAIN o
    \/ "items" \in DOMAIN o
    \/ "tag" \in DOMAIN o /\ is_ready(o)
CallReturnsHandle == Called => IsHandle(last.out)

\* C13: when call returns NotReady, what it carries is the request that was
\* passed, and nothing else (no handle); the task that was turned away is
\* notified if the service has capacity again and keeps it; is_ready and
\* is_not_ready are complements on every AsyncService value.
AsyncValues ==
    {Ready(Ok(r)) : r \in Reqs} \cup {Ready(Err("down"))}
        \cup {NotReady(r) : r \in Reqs}
HandsBack ==
    Called =>
        /\ last.out \in AsyncValues
        /\ is_not_ready(last.out) =>
              /\ last.out = NotReady(last.req)
              /\ DOMAIN last.out = {"tag", "req"}
        /\ parked => is_not_ready(last.out)
Complements ==
    \A a \in AsyncValues \cup {last.out} :
        "tag" \in DOMAIN a =>
            /\ is_not_ready(a) = ~is_ready(a)
            /\ is_ready(a) = (a.tag = "Ready")
RECURSIVE PassesThrough(_)
PassesThrough(m) ==
    CASE m.kind \in Owners -> PassesThrough(m.inner)
      [] OTHER -> m.kind \in {"prefix", "count", "sprefix", "sinc"}
RECURSIVE AllPass(_)
AllPass(s) ==
    CASE s.kind \in {"WrappedService", "SWrapped"} ->
            PassesThrough(s.middleware) /\ AllPass(s.service)
      [] s.kind = "Reduced" -> AllPass(s.service)
      [] s.kind \in Owners -> AllPass(s.inner)
      [] OTHER -> TRUE
InnerError(s) ==
    CASE Base(s).kind = "fail" -> "down"
      [] Base(s).kind = "emit" -> Base(s).err
      [] OTHER -> ""
ErrorsSurface ==
    (svc # None /\ Called /\ AllPass(svc) /\ InnerError(svc) # "") =>
        IF Shape(svc) = "StreamService"
        THEN last.out.err = InnerError(svc)
        ELSE last.out = Err(InnerError(svc))

ErrorsSurfaceWitness ==
    /\ svc # None /\ Called /\ AllPass(svc)
    /\ Base(svc) = Fail
    /\ layers = MaxLayers
    /\ last.out = Err("down")

ErrorsSurfaceReducedWitness ==
    /\ svc # None /\ Called /\ AllPass(svc)
    /\ Base(svc) = Emit(<<1, 2, 3>>, "broken")
    /\ svc.kind = "WrappedService"
    /\ layers = MaxLayers
    /\ last.out = Err("broken")

ErrorsSurfaceStreamWitness ==
    /\ svc # None /\ Called /\ AllPass(svc)
    /\ Base(svc) = Emit(<<1, 2, 3>>, "broken")
    /\ step = "chain"
    /\ last.out = Seq_(<<3, 4, 5>>, "broken")

\* C15: NewStreamMiddlewareChain::new_middleware,
\* NewStreamMiddlewareReduceChain::new_reducer and
\* NewStreamReduceMiddlewareChain::new_reducer ask their two factories and, when
\* both succeed, return the chain of the two instances just built, each in its
\* role; when one fails they return that factory's error and no chain (the
\* second factory is not asked once the first has failed).
ChainFactory ==
    /\ fac # None
    /\ fac.kind \in {"NewStreamMiddlewareChain", "NewStreamMiddlewareReduceChain",
                     "NewStreamReduceMiddlewareChain"}
Pieces(c) ==
    CASE c.kind = "StreamMiddlewareChain" ->
            <<c.inner_middleware, c.outer_middleware>>
      [] c.kind = "StreamMiddlewareReduceChain" -> <<c.middleware, c.reducer>>
      [] c.kind = "StreamReduceMiddlewareChain" -> <<c.reducer, c.middleware>>
ChainOf(f) ==
    CASE f.kind = "NewStreamMiddlewareChain" -> "StreamMiddlewareChain"
      [] f.kind = "NewStreamMiddlewareReduceChain" ->
            "StreamMiddlewareReduceChain"
      [] f.kind = "NewStreamReduceMiddlewareChain" ->
            "StreamReduceMiddlewareChain"
Failed(f) == Err(f.name \o " factory failed")
FactoryChainsAtomic ==
    /\ (ChainFactory /\ Invoked1) =>
          LET a == Subs(fac)[1]
              b == Subs(fac)[2]
              o == lastNew.out
          IN  /\ a.name \in lastNew.broken =>
                    o = Failed(a) /\ lastNew.log = <<a.name>>
              /\ (a.name \notin lastNew.broken /\ b.name \in lastNew.broken) =>
                    o = Failed(b) /\ lastNew.log = <<a.name, b.name>>
              /\ o.ok <=> lastNew.broken \cap {a.name, b.name} = {}
              /\ ~o.ok => DOMAIN o = {"ok", "err"}
              /\ o.ok =>
                    /\ lastNew.log = <<a.name, b.name>>
                    /\ o.val.kind = ChainOf(fac)
                    /\ Pieces(o.val) =
                          <<Stamp(a.product, lastNew.env[a.name]),
                            Stamp(b.product, lastNew.env[b.name])>>
                    /\ made[Len(made)] = o.val
    /\ ChainFactory =>
          \A i, j \in 1..Len(made) :
              i # j => /\ Pieces(made[i])[1].id # Pieces(made[j])[1].id
                       /\ Pieces(made[i])[2].id # Pieces(made[j])[2].id

FactoryChainWitness ==
    /\ ChainFactory /\ Invoked1
    /\ fac.kind = "NewStreamMiddlewareChain"
    /\ lastNew.out.ok
    /\ Len(made) = 2
    /\ lastNew.env["smw"] = 3

FactoryChainFailsWitness ==
    /\ ChainFactory /\ Invoked1
    /\ fac.kind = "NewStreamReduceMiddlewareChain"
    /\ lastNew.broken = {"mw"}
    /\ lastNew.out = Err("mw factory failed")
    /\ Len(made) = 1

FactoryChainFirstFailsWitness ==
    /\ ChainFactory /\ Invoked1
    /\ fac.kind = "NewStreamMiddlewareReduceChain"
    /\ lastNew.broken = {"smw", "red"}
    /\ lastNew.log = <<"smw">>


\* C16: ServiceWrapper::new_service, NewStreamServiceWrapper::new_service and
\* NewStreamServiceReducer::new_service ask the service factory first and the
\* middleware (reducer) factory after it, each leaf factory at most once per
\* invocation; they do not ask the middleware (reducer) factory when the
\* service factory failed; when the middleware (reducer) factory fails, the
\* service just built is in no instance handed out and is never called.
ServiceFactory ==
    /\ fac # None
    /\ fac.kind \in {"ServiceWrapper", "NewStreamServiceWrapper",
                     "NewStreamServiceReducer"}
ServiceSide == Fns(Subs(fac)[1])
OtherSide == Fns(Subs(fac)[2])
ServiceFn == CHOOSE n \in ServiceSide : TRUE
ConstructionOrder ==
    (ServiceFactory /\ Invoked1) =>
        LET log == lastNew.log
            built == lastNew.env[ServiceFn]
        IN  /\ Len(log) >= 1 /\ log[1] \in ServiceSide
            /\ \A i, j \in 1..Len(log) :
                  /\ (log[i] \in ServiceSide /\ log[j] \in OtherSide) => i < j
                  /\ i # j => log[i] # log[j]
            /\ ServiceSide \cap lastNew.broken # {} =>
                  /\ log = <<ServiceFn>>
                  /\ ~lastNew.out.ok
            /\ ~lastNew.out.ok =>
                  /\ \A i \in 1..Len(made) : Base(made[i]).id # built
                  /\ st.cell[built] = 0
            /\ lastNew.out.ok =>
                  /\ Base(lastNew.out.val).id = built
                  /\ \A n \in ServiceSide \cup OtherSide :
                        \E i \in 1..Len(log) : log[i] = n

DiscardedWitness ==
    /\ ServiceFactory /\ Invoked1
    /\ fac.kind = "NewStreamServiceReducer"
    /\ lastNew.broken = {"red"}
    /\ lastNew.log = <<"ssvc", "red">>
    /\ Len(made) = 1
    /\ ncalls = 2

DiscardedTallyWitness ==
    /\ ServiceFactory /\ Invoked1
    /\ fac.kind = "ServiceWrapper"
    /\ fac.service_factory.product = Tally(FALSE)
    /\ lastNew.broken = {"mw"}
    /\ lastNew.env["svc"] = 3
    /\ st.cell[1] = 2 /\ st.cell[2] = 1 /\ st.cell[3] = 0

NotAskedWitness ==
    /\ ServiceFactory /\ Invoked1
    /\ fac.kind = "NewStreamServiceWrapper"
    /\ lastNew.broken = {"ssvc", "smw"}
    /\ lastNew.log = <<"ssvc">>
    /\ lastNew.env["smw"] = 1
====
